---- MODULE Spec2Model ----
(***************************************************************************)
(* Model of src/server.py: the four Flask handlers /generate, /chat,       *)
(* /tool and /rag, their field validators, and the mapping of exceptions   *)
(* to HTTP responses.                                                      *)
(*                                                                         *)
(* JSON values are records [k, n, s]: k is the JSON/Python type, n the     *)
(* number and s the string.  A float is kept in tenths (0.2 is n = 2), an  *)
(* int as itself; Tenths brings both to one scale for Python's mixed       *)
(* int/float comparisons.  k = "absent" stands for a key that is not in    *)
(* the request object.  Containers (objects, lists, strings) carry in      *)
(* keys the names that Python's `in` finds in them.                        *)
(*                                                                         *)
(* A handler is an operator from the request body and the outcomes of the  *)
(* collaborator calls (tokenizer templates, generate) to the ordered list  *)
(* of events it causes (log entries, collaborator calls) and the response  *)
(* it returns.                                                             *)
(***************************************************************************)
EXTENDS Integers, Sequences, FiniteSets, TLC

VARIABLES pc, endpoint, data, events, ret, resp

vars == <<pc, endpoint, data, events, ret, resp>>

-----------------------------------------------------------------------------
(* Bounds of the model *)

\* Numeric inputs reach this many units beyond each limit of a range.
MaxOver == 2

\* The longest tools list of a /tool request.
MaxTools == 2

-----------------------------------------------------------------------------
(* Program constants *)

MinTokensLimit == 1

MaxTokensLimit == 131072

-----------------------------------------------------------------------------
(* JSON values *)

JInt(i) == [k |-> "int", n |-> i, s |-> ""]

JFloat(tenths) == [k |-> "float", n |-> tenths, s |-> ""]

JStr(str) == [k |-> "str", n |-> 0, s |-> str]

JBool(b) == [k |-> "bool", n |-> IF b THEN 1 ELSE 0, s |-> ""]

JNull == [k |-> "null", n |-> 0, s |-> ""]

JList == [k |-> "list", n |-> 0, s |-> ""]

Absent == [k |-> "absent", n |-> 0, s |-> ""]

\* Python's name of the type of a parsed JSON value, as it shows in messages.
TypeName(v) ==
    CASE v.k = "int" -> "int"
      [] v.k = "float" -> "float"
      [] v.k = "bool" -> "bool"
      [] v.k = "str" -> "str"
      [] v.k = "null" -> "NoneType"
      [] v.k = "list" -> "list"
      [] v.k \in {"object", "mapping"} -> "dict"
      [] OTHER -> "object"

\* Values with a membership test: `x in v` looks for a key of a dict, an
\* element of a list, a substring of a str.  A value's keys field holds the
\* names that `in` finds in it.
IsContainer(v) == v.k \in {"object", "mapping", "list", "str"}

\* Values Python orders against an int or float literal (bool is an int).
IsNumeric(v) == v.k \in {"int", "float", "bool"}

\* The value of a numeric v in tenths.
Tenths(v) == IF v.k = "float" THEN v.n ELSE 10 * v.n

-----------------------------------------------------------------------------
(* Exceptions *)

\* The classes an exception class derives from, below Exception: Python's
\* built-in hierarchy, io.UnsupportedOperation, json.JSONDecodeError and the
\* two werkzeug exceptions of request.get_json.
BasesOf(type) ==
    CASE type \in {"ValueError", "TypeError", "AttributeError", "RuntimeError",
                   "LookupError", "ArithmeticError", "OSError", "ImportError",
                   "NameError", "SyntaxError", "AssertionError", "BufferError",
                   "EOFError", "MemoryError", "ReferenceError", "StopIteration",
                   "StopAsyncIteration", "SystemError", "Warning",
                   "HTTPException"} -> {}
      [] type \in {"IndexError", "KeyError"} -> {"LookupError"}
      [] type \in {"FloatingPointError", "OverflowError", "ZeroDivisionError"}
            -> {"ArithmeticError"}
      [] type \in {"NotImplementedError", "RecursionError"} -> {"RuntimeError"}
      [] type = "ModuleNotFoundError" -> {"ImportError"}
      [] type = "UnboundLocalError" -> {"NameError"}
      [] type = "IndentationError" -> {"SyntaxError"}
      [] type = "TabError" -> {"IndentationError", "SyntaxError"}
      [] type \in {"BlockingIOError", "ChildProcessError", "ConnectionError",
                   "FileExistsError", "FileNotFoundError", "InterruptedError",
                   "IsADirectoryError", "NotADirectoryError", "PermissionError",
                   "ProcessLookupError", "TimeoutError"} -> {"OSError"}
      [] type \in {"BrokenPipeError", "ConnectionAbortedError",
                   "ConnectionRefusedError", "ConnectionResetError"}
            -> {"ConnectionError", "OSError"}
      [] type \in {"UnicodeError", "JSONDecodeError"} -> {"ValueError"}
      [] type \in {"UnicodeDecodeError", "UnicodeEncodeError",
                   "UnicodeTranslateError"} -> {"UnicodeError", "ValueError"}
      [] type = "UnsupportedOperation" -> {"OSError", "ValueError"}
      [] type \in {"BytesWarning", "DeprecationWarning", "EncodingWarning",
                   "FutureWarning", "ImportWarning", "PendingDeprecationWarning",
                   "ResourceWarning", "RuntimeWarning", "SyntaxWarning",
                   "UnicodeWarning", "UserWarning"} -> {"Warning"}
      [] type = "ExceptionGroup" -> {"BaseExceptionGroup"}
      [] type \in {"BadRequest", "UnsupportedMediaType"} -> {"HTTPException"}
      [] OTHER -> {}

\* An exception of a class with the given base classes; msg is str(e).
ExcOf(type, bases, msg) == [type |-> type, bases |-> bases, msg |-> msg]

Exc(type, msg) == ExcOf(type, BasesOf(type), msg)

NoExc == ExcOf("None", {}, "")

\* `except cls` catches e: e's class is cls or derives from it.
IsInstance(e, cls) == e.type = cls \/ cls \in e.bases

\* v['key'] on a v that is no dict.
SubscriptError(v) ==
    IF v.k = "str" THEN Exc("TypeError", "string indices must be integers, not 'str'")
    ELSE IF v.k = "list"
    THEN Exc("TypeError", "list indices must be integers or slices, not str")
    ELSE Exc("TypeError", "'" \o TypeName(v) \o "' object is not subscriptable")

\* TypeError of `literal <= v` for a v that has no order with numbers.
OrderTypeError(literalType, v) ==
    Exc("TypeError", "'<=' not supported between instances of '" \o literalType
                      \o "' and '" \o TypeName(v) \o "'")

-----------------------------------------------------------------------------
(* Field validators: the exception raised, NoExc when the validator returns *)

\* validate_temperature with the upper limit left out of the range.
validate_temperature_mut(temperature) ==
    IF ~IsNumeric(temperature) THEN OrderTypeError("float", temperature)
    ELSE IF ~(0 <= Tenths(temperature) /\ Tenths(temperature) < 10)
         THEN Exc("ValueError", "Temperature must be between 0.0 and 1.0")
         ELSE NoExc

validate_temperature(temperature) ==
    IF ~IsNumeric(temperature) THEN OrderTypeError("float", temperature)
    ELSE IF ~(0 <= Tenths(temperature) /\ Tenths(temperature) <= 10)
         THEN Exc("ValueError", "Temperature must be between 0.0 and 1.0")
         ELSE NoExc

validate_max_tokens(max_tokens) ==
    IF ~IsNumeric(max_tokens) THEN OrderTypeError("int", max_tokens)
    ELSE IF ~(10 * MinTokensLimit <= Tenths(max_tokens)
              /\ Tenths(max_tokens) <= 10 * MaxTokensLimit)
         THEN Exc("ValueError", "Max tokens must be between 1 and 131072")
         ELSE NoExc

\* validate_citation_mode comparing without regard to case.
validate_citation_mode_mut(citation_mode) ==
    IF ~(citation_mode \in {JStr("fast"), JStr("accurate"), JStr("Fast")})
    THEN Exc("ValueError", "Citation mode must be either 'fast' or 'accurate'")
    ELSE NoExc

validate_citation_mode(citation_mode) ==
    IF ~(citation_mode \in {JStr("fast"), JStr("accurate")})
    THEN Exc("ValueError", "Citation mode must be either 'fast' or 'accurate'")
    ELSE NoExc

\* `'x' not in v` for a v that is no container.
NotIterable(v) ==
    Exc("TypeError", "argument of type '" \o TypeName(v) \o "' is not iterable")

\* ParamError with required checked before type.
ParamError_mut(param) ==
    IF ~IsContainer(param) THEN NotIterable(param)
    ELSE IF "description" \notin param.keys
    THEN Exc("ValueError", "Parameter '" \o param.name \o "' must have a 'description' field")
    ELSE IF "required" \notin param.keys
    THEN Exc("ValueError", "Parameter '" \o param.name \o "' must have a 'required' field")
    ELSE IF "type" \notin param.keys
    THEN Exc("ValueError", "Parameter '" \o param.name \o "' must have a 'type' field")
    ELSE NoExc

\* Lines 30-35 for one (param_name, param_def) item.
ParamError(param) ==
    IF ~IsContainer(param) THEN NotIterable(param)
    ELSE IF "description" \notin param.keys
    THEN Exc("ValueError", "Parameter '" \o param.name \o "' must have a 'description' field")
    ELSE IF "type" \notin param.keys
    THEN Exc("ValueError", "Parameter '" \o param.name \o "' must have a 'type' field")
    ELSE IF "required" \notin param.keys
    THEN Exc("ValueError", "Parameter '" \o param.name \o "' must have a 'required' field")
    ELSE NoExc

\* The loop of line 29 from item i on: the first exception in insertion order.
RECURSIVE ParamsError(_, _)
ParamsError(items, i) ==
    IF i > Len(items) THEN NoExc
    ELSE IF ParamError(items[i]) # NoExc THEN ParamError(items[i])
    ELSE ParamsError(items, i + 1)

ToolError(tool) ==
    IF ~IsContainer(tool) THEN NotIterable(tool)
    ELSE IF "name" \notin tool.keys
    THEN Exc("ValueError", "Each tool must have a 'name' field")
    ELSE IF "description" \notin tool.keys
    THEN Exc("ValueError", "Each tool must have a 'description' field")
    ELSE IF "parameter_definitions" \notin tool.keys
    THEN Exc("ValueError", "Each tool must have a 'parameter_definitions' field")
    ELSE IF tool.k # "object" THEN SubscriptError(tool)
    ELSE IF tool.pd.k # "mapping"
    THEN Exc("AttributeError",
             "'" \o TypeName(tool.pd) \o "' object has no attribute 'items'")
    ELSE ParamsError(tool.pd.items, 1)

\* The loop of line 22 from tool i on.
RECURSIVE ToolsError(_, _)
ToolsError(items, i) ==
    IF i > Len(items) THEN NoExc
    ELSE IF ToolError(items[i]) # NoExc THEN ToolError(items[i])
    ELSE ToolsError(items, i + 1)

\* tools.items is what `for tool in tools` yields: the elements of a list, the
\* characters of a str, the keys of a dict.
validate_tools(tools) ==
    IF ~IsContainer(tools)
    THEN Exc("TypeError", "'" \o TypeName(tools) \o "' object is not iterable")
    ELSE ToolsError(tools.items, 1)

-----------------------------------------------------------------------------
(* Events a handler causes, and the responses it returns *)

LogEvent(level, msg) == [ev |-> "log", level |-> level, msg |-> msg]

\* A call of a collaborator: args are the keyword arguments that vary, out is
\* what the call did, [exc, text]: the exception it raised or the text it
\* returned.
CallEvent(fn, args, out) == [ev |-> "call", fn |-> fn, args |-> args, out |-> out]

\* jsonify({key: text}), status 200
OkResponse(body) == [status |-> 200, body |-> body]

\* The three except clauses' return statements, the same in all four handlers.
ErrorResponse(e) ==
    IF IsInstance(e, "KeyError")
    THEN [status |-> 400,
          body |-> [error |-> "Missing key in request JSON: " \o e.msg]]
    ELSE IF IsInstance(e, "ValueError")
    THEN [status |-> 400, body |-> [error |-> e.msg]]
    ELSE [status |-> 500,
          body |-> [error |-> "An unexpected error occurred", details |-> e.msg]]

\* The logger.error call of the except clauses of /generate, /tool and /rag.
ErrorLog(e) ==
    IF IsInstance(e, "KeyError")
    THEN LogEvent("error", "Missing key in request JSON: " \o e.msg)
    ELSE LogEvent("error", "An error occurred: " \o e.msg)

\* request.get_json(): the exception Flask raises for a body it does not
\* parse, NoExc when it returns the parsed body.
get_json(body) ==
    IF body.k = "invalid"
    THEN Exc("BadRequest", "400 Bad Request: Failed to decode JSON object: "
                           \o "Expecting value: line 1 column 1 (char 0)")
    ELSE IF body.k = "not_json"
    THEN Exc("UnsupportedMediaType",
             "415 Unsupported Media Type: Did not attempt to load JSON data "
             \o "because the request Content-Type was not 'application/json'.")
    ELSE NoExc

\* data[key] on the parsed body: the exception raised, NoExc if it yields a value.
GetItem(body, key) ==
    IF body.k # "object" THEN SubscriptError(body)
    ELSE IF body[key].k = "absent" THEN Exc("KeyError", "'" \o key \o "'")
    ELSE NoExc

\* data.get(key, default) on a body that is an object.
Get(body, key, default) == IF body[key].k = "absent" THEN default ELSE body[key]

\* Outcome of a try block.
Raised(e, evs) == [exc |-> e, events |-> evs, text |-> ""]

Returned(text, evs) == [exc |-> NoExc, events |-> evs, text |-> text]

DefaultTemperature == JFloat(2)

DefaultMaxTokens == JInt(MaxTokensLimit)

DefaultCitationMode == JStr("accurate")

-----------------------------------------------------------------------------
(* POST /generate *)

\* generate_text_try with generate called before max_tokens is validated.
generate_text_try_mut(body, gen) ==
    IF get_json(body) # NoExc THEN Raised(get_json(body), <<>>)
    ELSE IF GetItem(body, "prompt") # NoExc THEN Raised(GetItem(body, "prompt"), <<>>)
    ELSE LET prompt == body["prompt"]
             temperature == Get(body, "temperature", DefaultTemperature)
             max_tokens == Get(body, "max_tokens", DefaultMaxTokens)
             call == CallEvent("generate", [prompt |-> prompt, temp |-> temperature,
                                            max_tokens |-> max_tokens], gen)
         IN  IF validate_temperature(temperature) # NoExc
             THEN Raised(validate_temperature(temperature), <<>>)
             ELSE IF gen.exc # NoExc THEN Raised(gen.exc, <<call>>)
             ELSE IF validate_max_tokens(max_tokens) # NoExc
             THEN Raised(validate_max_tokens(max_tokens), <<call>>)
             ELSE Returned(gen.text,
                           <<call, LogEvent("debug", "Generated response: " \o gen.text)>>)

\* The try block, lines 57-76.  gen: the outcome of generate, if it is called.
generate_text_try(body, gen) ==
    IF get_json(body) # NoExc THEN Raised(get_json(body), <<>>)
    ELSE IF GetItem(body, "prompt") # NoExc THEN Raised(GetItem(body, "prompt"), <<>>)
    ELSE LET prompt == body["prompt"]
             temperature == Get(body, "temperature", DefaultTemperature)
             max_tokens == Get(body, "max_tokens", DefaultMaxTokens)
             call == CallEvent("generate", [prompt |-> prompt, temp |-> temperature,
                                            max_tokens |-> max_tokens], gen)
         IN  IF validate_temperature(temperature) # NoExc
             THEN Raised(validate_temperature(temperature), <<>>)
             ELSE IF validate_max_tokens(max_tokens) # NoExc
             THEN Raised(validate_max_tokens(max_tokens), <<>>)
             ELSE IF gen.exc # NoExc THEN Raised(gen.exc, <<call>>)
             ELSE Returned(gen.text,
                           <<call, LogEvent("debug", "Generated response: " \o gen.text)>>)

generate_text(body, gen) ==
    LET t == generate_text_try(body, gen)
        received == <<LogEvent("info", "Received a generation request.")>>
    IN  IF t.exc = NoExc
        THEN [events |-> received \o t.events,
              resp |-> OkResponse([generated_text |-> t.text])]
        ELSE [events |-> received \o t.events \o <<ErrorLog(t.exc)>>,
              resp |-> ErrorResponse(t.exc)]

-----------------------------------------------------------------------------
(* POST /chat *)

\* The try block, lines 111-131.  tpl: the outcome of apply_chat_template.
chat_try(body, tpl, gen) ==
    IF get_json(body) # NoExc THEN Raised(get_json(body), <<>>)
    ELSE IF GetItem(body, "conversation") # NoExc
    THEN Raised(GetItem(body, "conversation"), <<>>)
    ELSE LET conversation == body["conversation"]
             temperature == Get(body, "temperature", DefaultTemperature)
             max_tokens == Get(body, "max_tokens", DefaultMaxTokens)
             render == CallEvent("apply_chat_template",
                                 [conversation |-> conversation], tpl)
             call == CallEvent("generate", [prompt |-> JStr(tpl.text),
                                            temp |-> temperature,
                                            max_tokens |-> max_tokens], gen)
         IN  IF validate_temperature(temperature) # NoExc
             THEN Raised(validate_temperature(temperature), <<>>)
             ELSE IF validate_max_tokens(max_tokens) # NoExc
             THEN Raised(validate_max_tokens(max_tokens), <<>>)
             ELSE IF tpl.exc # NoExc THEN Raised(tpl.exc, <<render>>)
             ELSE IF gen.exc # NoExc THEN Raised(gen.exc, <<render, call>>)
             ELSE Returned(gen.text, <<render, call>>)

\* No logger call anywhere in this handler.
chat(body, tpl, gen) ==
    LET t == chat_try(body, tpl, gen)
    IN  IF t.exc = NoExc
        THEN [events |-> t.events, resp |-> OkResponse([generated_text |-> t.text])]
        ELSE [events |-> t.events, resp |-> ErrorResponse(t.exc)]

-----------------------------------------------------------------------------
(* POST /tool *)

\* use_tool_try validating temperature and max_tokens as /chat does.
use_tool_try_mut(body, tpl, gen) ==
    IF get_json(body) # NoExc THEN Raised(get_json(body), <<>>)
    ELSE IF GetItem(body, "conversation") # NoExc
    THEN Raised(GetItem(body, "conversation"), <<>>)
    ELSE IF GetItem(body, "tools") # NoExc THEN Raised(GetItem(body, "tools"), <<>>)
    ELSE LET conversation == body["conversation"]
             tools == body["tools"]
             temperature == Get(body, "temperature", DefaultTemperature)
             max_tokens == Get(body, "max_tokens", DefaultMaxTokens)
             render == CallEvent("apply_tool_use_template",
                                 [conversation |-> conversation, tools |-> tools], tpl)
             call == CallEvent("generate", [prompt |-> JStr(tpl.text)], gen)
         IN  IF validate_temperature(temperature) # NoExc
             THEN Raised(validate_temperature(temperature), <<>>)
             ELSE IF validate_max_tokens(max_tokens) # NoExc
             THEN Raised(validate_max_tokens(max_tokens), <<>>)
             ELSE IF validate_tools(tools) # NoExc
             THEN Raised(validate_tools(tools), <<>>)
             ELSE IF tpl.exc # NoExc THEN Raised(tpl.exc, <<render>>)
             ELSE IF gen.exc # NoExc THEN Raised(gen.exc, <<render, call>>)
             ELSE Returned(gen.text, <<render, call>>)

\* The try block, lines 177-188.  tpl: the outcome of apply_tool_use_template.
use_tool_try(body, tpl, gen) ==
    IF get_json(body) # NoExc THEN Raised(get_json(body), <<>>)
    ELSE IF GetItem(body, "conversation") # NoExc
    THEN Raised(GetItem(body, "conversation"), <<>>)
    ELSE IF GetItem(body, "tools") # NoExc THEN Raised(GetItem(body, "tools"), <<>>)
    ELSE LET conversation == body["conversation"]
             tools == body["tools"]
             render == CallEvent("apply_tool_use_template",
                                 [conversation |-> conversation, tools |-> tools], tpl)
             call == CallEvent("generate", [prompt |-> JStr(tpl.text)], gen)
             invalid == validate_tools(tools)
         IN  IF invalid # NoExc THEN Raised(invalid, <<>>)
             ELSE IF tpl.exc # NoExc THEN Raised(tpl.exc, <<render>>)
             ELSE IF gen.exc # NoExc THEN Raised(gen.exc, <<render, call>>)
             ELSE Returned(gen.text, <<render, call>>)

use_tool(body, tpl, gen) ==
    LET t == use_tool_try(body, tpl, gen)
        received == <<LogEvent("info", "Received a tool request.")>>
    IN  IF t.exc = NoExc
        THEN [events |-> received \o t.events,
              resp |-> OkResponse([tool_response |-> t.text])]
        ELSE [events |-> received \o t.events \o <<ErrorLog(t.exc)>>,
              resp |-> ErrorResponse(t.exc)]

-----------------------------------------------------------------------------
(* POST /rag *)

\* rag_try reading documents before conversation.
rag_try_mut(body, tpl, gen) ==
    IF get_json(body) # NoExc THEN Raised(get_json(body), <<>>)
    ELSE IF GetItem(body, "documents") # NoExc
    THEN Raised(GetItem(body, "documents"), <<>>)
    ELSE IF GetItem(body, "conversation") # NoExc
    THEN Raised(GetItem(body, "conversation"), <<>>)
    ELSE LET conversation == body["conversation"]
             documents == body["documents"]
             citation_mode == Get(body, "citation_mode", DefaultCitationMode)
             render == CallEvent("apply_grounded_generation_template",
                                 [conversation |-> conversation,
                                  documents |-> documents,
                                  citation_mode |-> citation_mode], tpl)
             call == CallEvent("generate", [prompt |-> JStr(tpl.text)], gen)
         IN  IF validate_citation_mode(citation_mode) # NoExc
             THEN Raised(validate_citation_mode(citation_mode), <<>>)
             ELSE IF tpl.exc # NoExc THEN Raised(tpl.exc, <<render>>)
             ELSE IF gen.exc # NoExc THEN Raised(gen.exc, <<render, call>>)
             ELSE Returned(gen.text, <<render, call>>)

\* The try block, lines 229-247.  tpl: the outcome of
\* apply_grounded_generation_template.
rag_try(body, tpl, gen) ==
    IF get_json(body) # NoExc THEN Raised(get_json(body), <<>>)
    ELSE IF GetItem(body, "conversation") # NoExc
    THEN Raised(GetItem(body, "conversation"), <<>>)
    ELSE IF GetItem(body, "documents") # NoExc
    THEN Raised(GetItem(body, "documents"), <<>>)
    ELSE LET conversation == body["conversation"]
             documents == body["documents"]
             citation_mode == Get(body, "citation_mode", DefaultCitationMode)
             render == CallEvent("apply_grounded_generation_template",
                                 [conversation |-> conversation,
                                  documents |-> documents,
                                  citation_mode |-> citation_mode], tpl)
             call == CallEvent("generate", [prompt |-> JStr(tpl.text)], gen)
         IN  IF validate_citation_mode(citation_mode) # NoExc
             THEN Raised(validate_citation_mode(citation_mode), <<>>)
             ELSE IF tpl.exc # NoExc THEN Raised(tpl.exc, <<render>>)
             ELSE IF gen.exc # NoExc THEN Raised(gen.exc, <<render, call>>)
             ELSE Returned(gen.text, <<render, call>>)

rag(body, tpl, gen) ==
    LET t == rag_try(body, tpl, gen)
        received == <<LogEvent("info", "Received a RAG request.")>>
    IN  IF t.exc = NoExc
        THEN [events |-> received \o t.events,
              resp |-> OkResponse([rag_response |-> t.text])]
        ELSE [events |-> received \o t.events \o <<ErrorLog(t.exc)>>,
              resp |-> ErrorResponse(t.exc)]

-----------------------------------------------------------------------------
(* Requests: the JSON bodies a client sends *)

Near(c) == (c - MaxOver)..(c + MaxOver)

\* temperature: ints and floats (in tenths) across both limits of [0.0, 1.0],
\* and values that are no numbers.
TemperatureValues ==
    {JInt(i) : i \in (0 - MaxOver)..(1 + MaxOver)}
    \cup {JFloat(t) : t \in (0 - MaxOver)..(10 + MaxOver)}
    \cup {JFloat(15), JBool(TRUE), JStr("hot"), JNull, JList}

\* max_tokens: ints and floats (in tenths) around both limits of [1, 131072],
\* and values that are no numbers.
MaxTokensValues ==
    {JInt(i) : i \in Near(1) \cup Near(131072)}
    \cup {JFloat(t) : t \in Near(10) \cup Near(1310720)}
    \cup {JStr("many"), JNull}

CitationModeValues ==
    {JStr("fast"), JStr("accurate"), JStr("Fast"), JStr("accurate "), JStr(""),
     JInt(1), JNull, JList}

\* (temperature, max_tokens) pairs sent to the endpoints that do not read them.
UnreadFields ==
    {<<Absent, Absent>>, <<JFloat(15), JInt(0)>>, <<JStr("hot"), JNull>>}

Conversation == JList

Documents == JList

\* The parsed body: its type and, for an object, the value under each key.
Body(k, prompt, conversation, tools, documents, citation_mode, temperature, max_tokens) ==
    [k |-> k, prompt |-> prompt, conversation |-> conversation, tools |-> tools,
     documents |-> documents, citation_mode |-> citation_mode,
     temperature |-> temperature, max_tokens |-> max_tokens]

NoTools == [k |-> "absent", items |-> <<>>]

\* A body that parses to something other than an object (a list, None, a
\* string, a number, a boolean), and a body get_json does not parse: invalid
\* JSON, or a Content-Type that is not JSON.
NonObjectBodies ==
    {Body(k, Absent, Absent, NoTools, Absent, Absent, Absent, Absent) :
        k \in {"list", "null", "str", "int", "float", "bool", "invalid", "not_json"}}

ParamNames == <<"query", "limit">>

ParamKeys == {"description", "type", "required"}

\* The fields a parameter definition carries: every subset of the three.
ParamKeySets == SUBSET ParamKeys

ParamDef(name, keys) == [name |-> name, k |-> "object", keys |-> keys]

\* parameter_definitions objects: the first n names of ParamNames, in order.
Mappings ==
    UNION {{[i \in 1..n |-> ParamDef(ParamNames[i], ks[i])] :
               ks \in [1..n -> ParamKeySets]} : n \in 0..Len(ParamNames)}

NoPd == [k |-> "absent", items |-> <<>>]

Tool(keys, pd) == [k |-> "object", keys |-> keys, pd |-> pd]

ToolKeys == {"name", "description", "parameter_definitions"}

\* Tool objects: any of name and description missing, parameter_definitions
\* missing or any of the mappings.
Tools ==
    {Tool(ks, NoPd) : ks \in SUBSET {"name", "description"}}
    \cup {Tool(ks \cup {"parameter_definitions"}, [k |-> "mapping", items |-> m]) :
             ks \in SUBSET {"name", "description"}, m \in Mappings}

\* The tools that longer lists are made of: those without
\* parameter_definitions, those with all three fields and one parameter at
\* most or a complete first parameter, and those that lack a field of their
\* own and whose only parameter lacks every field.
ListTools ==
    {t \in Tools :
        \/ t.pd.k = "absent"
        \/ /\ t.keys = ToolKeys
           /\ \/ Len(t.pd.items) <= 1
              \/ t.pd.items[1].keys = ParamKeys
        \/ /\ Len(t.pd.items) = 1
           /\ t.pd.items[1].keys = {}}

GoodTool ==
    Tool(ToolKeys, [k |-> "mapping", items |-> <<ParamDef("query", ParamKeys)>>])

\* A value of another JSON type where an object is expected; keys: the names
\* `in` finds in it (substrings of a str, elements of a list).
Other(k, keys) == [k |-> k, keys |-> keys, pd |-> NoPd]

\* A parameter definition of another JSON type.
OtherParam(k, keys) == [name |-> "query", k |-> k, keys |-> keys]

\* tools entries of the wrong shape: a number, null, strings and lists (without
\* and with the three field names in them), a parameter_definitions that is no
\* object, parameter definitions that are no objects.
MalformedTools ==
    {Other("int", {}), Other("null", {}), Other("str", {}), Other("str", ToolKeys),
     Other("list", {}), Other("list", ToolKeys)}
    \cup {Tool(ToolKeys, [k |-> pk, items |-> <<>>]) : pk \in {"list", "null", "str"}}
    \cup {Tool(ToolKeys, [k |-> "mapping", items |-> <<q>>]) :
             q \in {OtherParam("str", {}), OtherParam("str", ParamKeys),
                     OtherParam("list", {}), OtherParam("null", {}),
                     OtherParam("int", {})}}

\* The entries of the tools lists that hold malformed tools.
MixedTools == MalformedTools \cup {GoodTool, Tool({"name"}, NoPd)}

\* tools values crossed with every combination of the other fields: absent,
\* null, a number, the strings "" and "abc" (iterated by character), the
\* objects {} and {"name": ...} (iterated by key), and lists.
FewTools ==
    {NoTools, [k |-> "null", items |-> <<>>], [k |-> "int", items |-> <<>>],
     [k |-> "str", items |-> <<>>],
     [k |-> "str", items |-> <<Other("str", {}), Other("str", {}), Other("str", {})>>],
     [k |-> "object", items |-> <<>>],
     [k |-> "object", items |-> <<Other("str", {"name"})>>],
     [k |-> "list", items |-> <<>>],
     [k |-> "list", items |-> <<GoodTool>>],
     [k |-> "list", items |-> <<GoodTool, Tool({"name"}, NoPd)>>]}

Endpoints == {"/generate", "/chat", "/tool", "/rag"}

-----------------------------------------------------------------------------
(* The collaborators: what a call may do *)

Ok(text) == [exc |-> NoExc, text |-> text]

Fails(e) == [exc |-> e, text |-> ""]

\* tokenizer.apply_*_template: renders a prompt, or raises.
TemplateOutcomes ==
    {Ok("<rendered prompt>"),
     Fails(Exc("KeyError", "'role'")),
     Fails(ExcOf("MyKeyError", {"KeyError", "LookupError"}, "'content'")),
     Fails(Exc("ValueError", "Conversation roles must alternate")),
     Fails(Exc("RuntimeError", "template failed"))}

\* mlx_lm.generate: returns the generated text, or raises.
GenerateOutcomes ==
    {Ok("Hello"), Ok("Bonjour"),
     Fails(Exc("ValueError", "prompt is too long")),
     Fails(Exc("UnicodeEncodeError",
               "'ascii' codec can't encode character '\\xe9' in position 0: ordinal not in range(128)")),
     Fails(Exc("RuntimeError", "out of memory"))}

-----------------------------------------------------------------------------
(* The server: one request from its arrival to the response sent *)

NoResponse == [status |-> 0, body |-> [none |-> ""]]

NoBody == Body("none", Absent, Absent, NoTools, Absent, Absent, Absent, Absent)

Init ==
    /\ pc = "idle"
    /\ endpoint = "none"
    /\ data = NoBody
    /\ events = <<>>
    /\ ret = NoResponse
    /\ resp = NoResponse

\* Flask routes a POST to its handler.  data is the body the client sent: what
\* request.get_json() parses it to, or the reason it does not parse.
Arrive(ep, body) ==
    /\ endpoint' = ep
    /\ data' = body
    /\ pc' = "received"
    /\ UNCHANGED <<events, ret, resp>>

ReceiveGenerate ==
    /\ pc = "idle"
    /\ \E p \in {Absent, JStr("Hi")},
          t \in TemperatureValues \cup {Absent},
          m \in MaxTokensValues \cup {Absent} :
           Arrive("/generate", Body("object", p, Absent, NoTools, Absent, Absent, t, m))

ReceiveChat ==
    /\ pc = "idle"
    /\ \E c \in {Absent, Conversation},
          t \in TemperatureValues \cup {Absent},
          m \in MaxTokensValues \cup {Absent} :
           Arrive("/chat", Body("object", Absent, c, NoTools, Absent, Absent, t, m))

\* Every tools list of up to MaxTools tools of ListTools, in a request that
\* is complete.
ReceiveTool ==
    /\ pc = "idle"
    /\ \E n \in 0..MaxTools : \E ts \in [1..n -> ListTools] :
           Arrive("/tool", Body("object", Absent, Conversation,
                                [k |-> "list", items |-> ts],
                                Absent, Absent, Absent, Absent))

\* Every tool of Tools, alone, and before and after every tool of ListTools.
ReceiveToolPair ==
    /\ pc = "idle"
    /\ \E t \in Tools :
         \E ts \in {<<t>>} \cup UNION {{<<t, u>>, <<u, t>>} : u \in ListTools} :
           Arrive("/tool", Body("object", Absent, Conversation,
                                [k |-> "list", items |-> ts],
                                Absent, Absent, Absent, Absent))

\* Every tools list of up to MaxTools entries among which malformed ones.
ReceiveToolMalformed ==
    /\ pc = "idle"
    /\ \E n \in 1..MaxTools : \E ts \in [1..n -> MixedTools] :
           Arrive("/tool", Body("object", Absent, Conversation,
                                [k |-> "list", items |-> ts],
                                Absent, Absent, Absent, Absent))

\* Every combination of the keys of a /tool request, with a few tools values.
ReceiveToolKeys ==
    /\ pc = "idle"
    /\ \E c \in {Absent, Conversation}, ts \in FewTools, u \in UnreadFields :
           Arrive("/tool", Body("object", Absent, c, ts, Absent, Absent, u[1], u[2]))

ReceiveRag ==
    /\ pc = "idle"
    /\ \E c \in {Absent, Conversation}, d \in {Absent, Documents},
          cm \in CitationModeValues \cup {Absent}, u \in UnreadFields :
           Arrive("/rag", Body("object", Absent, c, NoTools, d, cm, u[1], u[2]))

ReceiveNonObject ==
    /\ pc = "idle"
    /\ \E ep \in Endpoints, body \in NonObjectBodies : Arrive(ep, body)

GenerateText ==
    /\ pc = "received"
    /\ endpoint = "/generate"
    /\ \E gen \in GenerateOutcomes :
          LET r == generate_text(data, gen)
          IN  events' = r.events /\ ret' = r.resp
    /\ pc' = "handled"
    /\ UNCHANGED <<endpoint, data, resp>>

Chat ==
    /\ pc = "received"
    /\ endpoint = "/chat"
    /\ \E tpl \in TemplateOutcomes, gen \in GenerateOutcomes :
          LET r == chat(data, tpl, gen)
          IN  events' = r.events /\ ret' = r.resp
    /\ pc' = "handled"
    /\ UNCHANGED <<endpoint, data, resp>>

UseTool ==
    /\ pc = "received"
    /\ endpoint = "/tool"
    /\ \E tpl \in TemplateOutcomes, gen \in GenerateOutcomes :
          LET r == use_tool(data, tpl, gen)
          IN  events' = r.events /\ ret' = r.resp
    /\ pc' = "handled"
    /\ UNCHANGED <<endpoint, data, resp>>

Rag ==
    /\ pc = "received"
    /\ endpoint = "/rag"
    /\ \E tpl \in TemplateOutcomes, gen \in GenerateOutcomes :
          LET r == rag(data, tpl, gen)
          IN  events' = r.events /\ ret' = r.resp
    /\ pc' = "handled"
    /\ UNCHANGED <<endpoint, data, resp>>

\* Flask sends what the handler returned.
Respond ==
    /\ pc = "handled"
    /\ resp' = ret
    /\ pc' = "done"
    /\ UNCHANGED <<endpoint, data, events, ret>>

Next ==
    \/ ReceiveGenerate \/ ReceiveChat \/ ReceiveTool \/ ReceiveToolPair
    \/ ReceiveToolMalformed \/ ReceiveToolKeys
    \/ ReceiveRag \/ ReceiveNonObject
    \/ GenerateText \/ Chat \/ UseTool \/ Rag \/ Respond

Spec == Init /\ [][Next]_vars

-----------------------------------------------------------------------------
(* Vocabulary of the properties *)

\* The handler has run: ret is the response it returned.
Handled == pc \in {"handled", "done"}

IsCall(e, fn) == e.ev = "call" /\ e.fn = fn

Calls(fn) == SelectSeq(events, LAMBDA e : IsCall(e, fn))

AllCalls == SelectSeq(events, LAMBDA e : e.ev = "call")

TemplateOf(ep) ==
    CASE ep = "/chat" -> "apply_chat_template"
      [] ep = "/tool" -> "apply_tool_use_template"
      [] ep = "/rag" -> "apply_grounded_generation_template"
      [] OTHER -> "none"

RequiredKeys(ep) ==
    CASE ep = "/generate" -> <<"prompt">>
      [] ep = "/chat" -> <<"conversation">>
      [] ep = "/tool" -> <<"conversation", "tools">>
      [] ep = "/rag" -> <<"conversation", "documents">>
      [] OTHER -> <<>>

\* Positions in RequiredKeys of the keys the request object lacks.
MissingKeys ==
    {i \in 1..Len(RequiredKeys(endpoint)) : data[RequiredKeys(endpoint)[i]].k = "absent"}

\* The request is a JSON object with every required key of its endpoint.
Complete == data.k = "object" /\ MissingKeys = {}

\* A JSON number (true and false are not).
IsNumber(v) == v.k \in {"int", "float"}

InTemperatureRange(v) == IsNumber(v) /\ 0 <= Tenths(v) /\ Tenths(v) <= 10

InMaxTokensRange(v) == IsNumber(v) /\ 10 <= Tenths(v) /\ Tenths(v) <= 1310720

\* A number with no fractional part.
IsInteger(v) == v.k = "int" \/ (v.k = "float" /\ v.n % 10 = 0)

BadRequest(msg) == [status |-> 400, body |-> [error |-> msg]]

TemperatureRejected == BadRequest("Temperature must be between 0.0 and 1.0")

MaxTokensRejected == BadRequest("Max tokens must be between 1 and 131072")

CitationModeRejected ==
    BadRequest("Citation mode must be either 'fast' or 'accurate'")

-----------------------------------------------------------------------------
(* C1 *)

\* C1: on /generate and /chat, with the required key present, a temperature
\* that is a number outside [0.0, 1.0] is answered 400 "Temperature must be
\* between 0.0 and 1.0"; a temperature inside the range (0.0 and 1.0 included)
\* or absent (then 0.2) is never answered so, and with max_tokens also in
\* range or absent the handler goes on to its collaborator, which gets 0.2
\* for an absent temperature.
C1_TemperatureRange ==
    (Handled /\ endpoint \in {"/generate", "/chat"} /\ Complete) =>
        LET t == data.temperature
            m == data.max_tokens
        IN  /\ (IsNumber(t) /\ ~InTemperatureRange(t)) =>
                   (ret = TemperatureRejected /\ AllCalls = <<>>)
            /\ (InTemperatureRange(t) \/ t = Absent) =>
                   /\ ret # TemperatureRejected
                   /\ (InMaxTokensRange(m) \/ m = Absent) => AllCalls # <<>>
                   /\ \A i \in 1..Len(events) :
                          (IsCall(events[i], "generate") /\ t = Absent) =>
                              events[i].args.temp = JFloat(2)

\* A temperature of 1.5 was answered 400 on /generate.
C1_Witness ==
    /\ pc = "done"
    /\ endpoint = "/generate"
    /\ Complete
    /\ data.temperature = JFloat(15)
    /\ resp = TemperatureRejected

-----------------------------------------------------------------------------
(* C2 *)

\* C2: on /generate and /chat, with the required key present and a valid
\* temperature, a max_tokens that is a number is accepted only if it is an
\* integer with 1 <= max_tokens <= 131072, and is answered 400 "Max tokens
\* must be between 1 and 131072" otherwise; the limits and the default are
\* accepted.
C2_MaxTokensIntegerInRange ==
    (Handled /\ endpoint \in {"/generate", "/chat"} /\ Complete
       /\ (InTemperatureRange(data.temperature) \/ data.temperature = Absent)) =>
        LET m == data.max_tokens
        IN  /\ (IsNumber(m) /\ ~(IsInteger(m) /\ InMaxTokensRange(m))) =>
                   ret = MaxTokensRejected
            /\ ((IsInteger(m) /\ InMaxTokensRange(m)) \/ m = Absent) =>
                   (ret # MaxTokensRejected /\ AllCalls # <<>>)

-----------------------------------------------------------------------------
(* C3 *)

ToolKeyOrder == <<"name", "description", "parameter_definitions">>

ParamKeyOrder == <<"description", "type", "required">>

\* Every entry is an object, every parameter_definitions a mapping and every
\* parameter definition an object.
WellTyped(ts) ==
    \A i \in 1..Len(ts) :
        /\ ts[i].k = "object"
        /\ "parameter_definitions" \in ts[i].keys =>
               /\ ts[i].pd.k = "mapping"
               /\ \A j \in 1..Len(ts[i].pd.items) : ts[i].pd.items[j].k = "object"

\* The fields the tools themselves lack: <<tool, 0, rank of the field, message>>.
ToolViolations(ts) ==
    {<<q[1], 0, q[2], "Each tool must have a '" \o ToolKeyOrder[q[2]] \o "' field">> :
        q \in {p \in (1..Len(ts)) \X (1..3) : ToolKeyOrder[p[2]] \notin ts[p[1]].keys}}

\* The fields the parameter definitions lack: <<tool, parameter, rank of the
\* field, message>>.
ParamViolations(ts) ==
    {<<q[1], q[2], q[3], "Parameter '" \o ts[q[1]].pd.items[q[2]].name
                          \o "' must have a '" \o ParamKeyOrder[q[3]] \o "' field">> :
        q \in {p \in (1..Len(ts)) \X (1..Len(ParamNames)) \X (1..3) :
                  /\ "parameter_definitions" \in ts[p[1]].keys
                  /\ p[2] <= Len(ts[p[1]].pd.items)
                  /\ ParamKeyOrder[p[3]] \notin ts[p[1]].pd.items[p[2]].keys}}

Violations(ts) == ToolViolations(ts) \cup ParamViolations(ts)

\* v comes before w: earlier tool, then the tool's own fields before its
\* parameters, then earlier parameter, then earlier field.
Before(v, w) ==
    \/ v[1] < w[1]
    \/ v[1] = w[1] /\ v[2] < w[2]
    \/ v[1] = w[1] /\ v[2] = w[2] /\ v[3] < w[3]

FirstViolation(ts) ==
    CHOOSE v \in Violations(ts) : \A w \in Violations(ts) : w = v \/ Before(v, w)

\* C3: on /tool with conversation and tools present and tools a list of tool
\* objects, a missing field is answered 400 with the message of the first
\* violation in the order tools, then name, description,
\* parameter_definitions, then the parameters in insertion order
\* (description, type, required), before any collaborator is called; with no
\* violation validate_tools raises nothing and the template is rendered.
C3_FirstToolViolation ==
    (Handled /\ endpoint = "/tool" /\ Complete /\ data.tools.k = "list"
       /\ WellTyped(data.tools.items)) =>
        IF Violations(data.tools.items) # {}
        THEN /\ ret = BadRequest(FirstViolation(data.tools.items)[4])
             /\ AllCalls = <<>>
        ELSE Len(Calls("apply_tool_use_template")) = 1

\* Two tools, the first without a violation; the second parameter of the
\* second tool has description only, and the answer names its type field, the
\* first of the two violations.
C3_Witness ==
    /\ pc = "done"
    /\ endpoint = "/tool"
    /\ Complete
    /\ data.tools.k = "list"
    /\ Len(data.tools.items) = 2
    /\ WellTyped(data.tools.items)
    /\ Violations(<<data.tools.items[1]>>) = {}
    /\ Len(data.tools.items[2].pd.items) = 2
    /\ data.tools.items[2].pd.items[2].keys = {"description"}
    /\ Cardinality(Violations(data.tools.items)) = 2
    /\ resp = BadRequest("Parameter 'limit' must have a 'type' field")

-----------------------------------------------------------------------------
(* C4 *)

\* C4: on /rag with conversation and documents present, a citation_mode
\* other than exactly "fast" or "accurate" is answered 400 "Citation mode
\* must be either 'fast' or 'accurate'" and no collaborator is called; an
\* absent citation_mode counts as "accurate"; the accepted value is the one
\* the grounded-generation template is rendered with.
C4_CitationMode ==
    (Handled /\ endpoint = "/rag" /\ Complete) =>
        LET cm == data.citation_mode
            tplCalls == Calls("apply_grounded_generation_template")
        IN  IF cm # Absent /\ cm \notin {JStr("fast"), JStr("accurate")}
            THEN ret = CitationModeRejected /\ AllCalls = <<>>
            ELSE /\ ret # CitationModeRejected
                 /\ Len(tplCalls) = 1
                 /\ tplCalls[1].args.citation_mode =
                        (IF cm = Absent THEN JStr("accurate") ELSE cm)

\* citation_mode "Fast" was answered 400.
C4_Witness ==
    /\ pc = "done"
    /\ endpoint = "/rag"
    /\ Complete
    /\ data.citation_mode = JStr("Fast")
    /\ resp = CitationModeRejected

-----------------------------------------------------------------------------
(* C5 *)

FirstMissingKey ==
    RequiredKeys(endpoint)[CHOOSE i \in MissingKeys : \A j \in MissingKeys : i <= j]

\* C5: a request object that lacks a required key is answered 400 "Missing
\* key in request JSON: '<key>'" with the first missing key of the endpoint's
\* order, whatever the other fields hold, and no collaborator is called.
C5_MissingKey ==
    (Handled /\ data.k = "object" /\ MissingKeys # {}) =>
        /\ ret = BadRequest("Missing key in request JSON: '" \o FirstMissingKey \o "'")
        /\ AllCalls = <<>>

\* prompt is missing and the temperature is out of range: the missing key is
\* what the answer reports.
C5_Witness ==
    /\ pc = "done"
    /\ endpoint = "/generate"
    /\ data.k = "object"
    /\ data.prompt = Absent
    /\ data.temperature = JFloat(15)
    /\ resp = BadRequest("Missing key in request JSON: 'prompt'")

-----------------------------------------------------------------------------
(* C6 *)

InternalError(msg) ==
    [status |-> 500,
     body |-> [error |-> "An unexpected error occurred", details |-> msg]]

\* C6: a failure raised by a collaborator call is answered 500 with the
\* original message under "details", whatever its exception type, and no
\* 400 comes from a collaborator's failure.
C6_CollaboratorFailureIs500 ==
    Handled =>
        \A i \in 1..Len(events) :
            (events[i].ev = "call" /\ events[i].out.exc # NoExc) =>
                ret = InternalError(events[i].out.exc.msg)

-----------------------------------------------------------------------------
(* C7 *)

\* Present, and of a JSON type that is no number.
NotANumber(v) == v # Absent /\ ~IsNumber(v)

\* The request carries a field of the wrong JSON type that its handler reads.
Malformed ==
    \/ data.k \in {"list", "null", "str", "int", "float", "bool"}
    \/ /\ Complete
       /\ endpoint \in {"/generate", "/chat"}
       /\ NotANumber(data.temperature) \/ NotANumber(data.max_tokens)
    \/ /\ Complete
       /\ endpoint = "/tool"
       /\ data.tools.k # "list" \/ ~WellTyped(data.tools.items)

\* C7: a request with a present but malformed field is answered 400 with
\* {"error": <message>}, never 500.
C7_MalformedIs400 ==
    (Handled /\ Malformed) => (ret.status = 400 /\ DOMAIN ret.body = {"error"})

-----------------------------------------------------------------------------
(* C8 *)

ResultBody(ep, text) ==
    CASE ep = "/generate" -> [generated_text |-> text]
      [] ep = "/chat" -> [generated_text |-> text]
      [] ep = "/tool" -> [tool_response |-> text]
      [] ep = "/rag" -> [rag_response |-> text]

\* Every validator the endpoint runs accepts the request's values.
ValidatorsPass ==
    CASE endpoint \in {"/generate", "/chat"} ->
             /\ validate_temperature(Get(data, "temperature", JFloat(2))) = NoExc
             /\ validate_max_tokens(Get(data, "max_tokens", JInt(131072))) = NoExc
      [] endpoint = "/tool" -> validate_tools(data.tools) = NoExc
      [] endpoint = "/rag" ->
             validate_citation_mode(Get(data, "citation_mode", JStr("accurate"))) = NoExc
      [] OTHER -> FALSE

\* C8: no collaborator is called twice; generate is called only for a
\* complete request that every validator accepts and, on /chat, /tool and
\* /rag, only right after the template call returned; the answer is 200 with
\* generate's text under the endpoint's key exactly when generate returned,
\* and any other answer is a 400 or 500 that carries only error fields.
C8_LinearPipeline ==
    Handled =>
        /\ \A fn \in {"generate", TemplateOf(endpoint)} : Len(Calls(fn)) <= 1
        /\ \A i \in 1..Len(events) :
               IsCall(events[i], "generate") =>
                   /\ Complete
                   /\ ValidatorsPass
                   /\ endpoint # "/generate" =>
                          /\ i > 1
                          /\ IsCall(events[i - 1], TemplateOf(endpoint))
                          /\ events[i - 1].out.exc = NoExc
                          /\ events[i].args.prompt = JStr(events[i - 1].out.text)
        /\ ret.status = 200 <=>
               (Len(Calls("generate")) = 1 /\ Calls("generate")[1].out.exc = NoExc)
        /\ ret.status = 200 =>
               ret.body = ResultBody(endpoint, Calls("generate")[1].out.text)
        /\ ret.status # 200 =>
               (ret.status \in {400, 500} /\ DOMAIN ret.body \subseteq {"error", "details"})

\* /rag answered 200 with the text generate returned.
C8_Witness ==
    /\ pc = "done"
    /\ endpoint = "/rag"
    /\ resp = [status |-> 200, body |-> [rag_response |-> "Bonjour"]]
    /\ Len(AllCalls) = 2

-----------------------------------------------------------------------------
(* C9 *)

\* The handler Flask routes the endpoint to.
Handler(ep, body, tpl, gen) ==
    CASE ep = "/generate" -> generate_text(body, gen)
      [] ep = "/chat" -> chat(body, tpl, gen)
      [] ep = "/tool" -> use_tool(body, tpl, gen)
      [] ep = "/rag" -> rag(body, tpl, gen)

\* The request without its temperature and max_tokens.
Strip(body) == [body EXCEPT !.temperature = Absent, !.max_tokens = Absent]

\* C9: on /tool and /rag what the handler did (its collaborator calls with
\* their outcomes, its log, its answer) is what it does for the same request
\* without temperature and max_tokens under the same collaborator outcomes,
\* and generate gets neither field; on /generate and /chat generate gets the
\* request's temperature and max_tokens, 0.2 and 131072 for absent ones, and
\* they are in range.
C9_UnreadSamplingFields ==
    Handled =>
        /\ endpoint \in {"/tool", "/rag"} =>
               /\ \A i \in 1..Len(events) :
                      IsCall(events[i], "generate") => DOMAIN events[i].args = {"prompt"}
               /\ data # Strip(data) =>
                      \E tpl \in TemplateOutcomes, gen \in GenerateOutcomes :
                          /\ Handler(endpoint, Strip(data), tpl, gen)
                                 = [events |-> events, resp |-> ret]
                          /\ Handler(endpoint, data, tpl, gen)
                                 = [events |-> events, resp |-> ret]
        /\ endpoint \in {"/generate", "/chat"} =>
               \A i \in 1..Len(events) :
                   IsCall(events[i], "generate") =>
                       /\ events[i].args.temp =
                              (IF data.temperature = Absent THEN JFloat(2)
                               ELSE data.temperature)
                       /\ events[i].args.max_tokens =
                              (IF data.max_tokens = Absent THEN JInt(131072)
                               ELSE data.max_tokens)
                       /\ 0 <= Tenths(events[i].args.temp)
                       /\ Tenths(events[i].args.temp) <= 10
                       /\ 10 <= Tenths(events[i].args.max_tokens)
                       /\ Tenths(events[i].args.max_tokens) <= 1310720

\* /tool answered 200 to a request with temperature 1.5 and max_tokens 0.
C9_Witness ==
    /\ pc = "done"
    /\ endpoint = "/tool"
    /\ data.temperature = JFloat(15)
    /\ data.max_tokens = JInt(0)
    /\ resp.status = 200

-----------------------------------------------------------------------------
(* C10 *)

\* C10: a 400 or 500 answer is sent only after the handler logged an error.
C10_ErrorLoggedBeforeResponse ==
    (pc = "done" /\ resp.status \in {400, 500}) =>
        \E i \in 1..Len(events) : events[i].ev = "log" /\ events[i].level = "error"

====
